---- MODULE Spec2Model ----
(***************************************************************************)
(* State-machine model of the document question-answering backend:        *)
(* routes.py (HTTP handlers), langchain_service.py (ingestion, query,      *)
(* comparison and search over the in-memory index map) and models.py       *)
(* (Document and Conversation rows).                                       *)
(*                                                                         *)
(* Each HTTP handler is one atomic action (one request runs to completion);*)
(* SpecInterleave also runs /ask and /upload in two steps each, with other *)
(* requests between the two.                                               *)
(* The external collaborators are inputs of the actions: whether the file  *)
(* loader, the embedding provider and the LLM answer or raise.             *)
(* Primary keys are allocated by a counter and never reused.  Whether the  *)
(* relational store enforces the declared foreign key is a property of the *)
(* deployment, drawn in Init.                                              *)
(***************************************************************************)
EXTENDS Integers, Sequences, FiniteSets, TLC

---------------------------------------------------------------------------
\* Bounds of the model.
MaxDocs == 2
NClients == 2
MaxSessions == 3
MaxConvs == 2
MaxChunks == 1
MaxIds == 2
MaxDist == 1
SearchDocs == 5
HistoryConvs == 12
HistoryDocs == 1
OtherTurns == 1
InterleaveDocs == 1

\* Program constants.
RETRIEVER_K == 3
GENERAL_K == 2
GENERAL_CONTEXT_DOCS == 5
SEARCH_K == 3
SEARCH_TOP == 10
MIN_COMPARE_one == 2 - 1
MIN_COMPARE == 2
HISTORY_LIMIT == 10
DOCUMENT_TURNS == 5
GENERAL_TURNS == 3
CONVERSATION_TURNS == 5

---------------------------------------------------------------------------
\* Values.
NoExt == "none"
NoDoc == 0          \* document_id = None / NULL
NoSession == 0      \* no 'session_id' key in the session cookie
OrphanPath == 0     \* a saved file that no Document row names
NoSummary == "None"
LlmText == "llm text"
SummaryFailed == "Summary generation failed"
ErrorText == "error string"

Clients == 1..NClients
DocIds == 1..MaxDocs
Stems == {"", "ascii", "unicode"}
Exts == {NoExt, "txt", "PDF", "doc"}
NoFile == [stem |-> "", ext |-> "no file part"]
EmptyName == [stem |-> "", ext |-> NoExt]
FileNames == [stem : Stems, ext : Exts]
Texts == UNION {[1..n -> {0}] : n \in 0..MaxChunks}

ALLOWED_EXTENSIONS == {"txt", "pdf"}

lower(s) == IF s = "PDF" THEN "pdf" ELSE s

allowed_file_any_extension(filename) == filename.ext # NoExt

allowed_file(filename) ==
    filename.ext # NoExt /\ lower(filename.ext) \in ALLOWED_EXTENSIONS

\* werkzeug's secure_filename: non-ASCII characters are dropped and leading
\* dots are stripped, so a name whose stem vanishes keeps no dot at all.
secure_filename(filename) ==
    IF filename.stem = "ascii" THEN filename
    ELSE IF filename.ext = NoExt THEN [stem |-> "", ext |-> NoExt]
    ELSE [stem |-> "ascii", ext |-> NoExt]

NoContext == [chunks |-> <<>>, note |-> 0]
IsEmpty(context) == context.chunks = <<>> /\ context.note = 0

Min(S) == CHOOSE x \in S : \A y \in S : x <= y
Max(S) == CHOOSE x \in S : \A y \in S : x >= y
Take(s, n) == SubSeq(s, 1, IF Len(s) < n THEN Len(s) ELSE n)
Range(s) == {s[i] : i \in 1..Len(s)}
Reverse(s) == [i \in 1..Len(s) |-> s[Len(s) + 1 - i]]

---------------------------------------------------------------------------
VARIABLES
    documents,          \* Document table: id -> row
    next_document_id,   \* next primary key of Document
    conversations,      \* Conversation table, in timestamp order
    next_conversation_id,
    files,              \* paths present in the upload folder
    session,            \* client -> session['session_id'] or NoSession
    next_uuid,          \* the next fresh uuid4 for a session
    vector_stores,      \* LangChainService.vector_stores
    document_texts,     \* LangChainService.document_texts
    fk_enforced,        \* the store enforces Conversation.document_id's key
    pending,            \* client -> the locals of its request in progress
    last                \* the response of the most recent request

vars == <<documents, next_document_id, conversations, next_conversation_id,
          files, session, next_uuid, vector_stores, document_texts,
          fk_enforced, pending, last>>

db == <<documents, next_document_id, conversations, next_conversation_id>>
service == <<vector_stores, document_texts>>

Response == [op |-> "none", status |-> 0, success |-> FALSE, answer |-> "",
             context |-> NoContext, mode |-> "none", sources |-> {},
             prompt |-> <<>>, llm_called |-> FALSE, results |-> <<>>,
             recorded |-> FALSE, chat_history |-> <<>>]

\* No request of the client is in progress.
Idle == [op |-> "idle"]

Init ==
    /\ documents = <<>>
    /\ next_document_id = 1
    /\ conversations = <<>>
    /\ next_conversation_id = 1
    /\ files = {}
    /\ session = [c \in Clients |-> NoSession]
    /\ next_uuid = 1
    /\ vector_stores = <<>>
    /\ document_texts = <<>>
    /\ fk_enforced \in BOOLEAN
    /\ pending = [c \in Clients |-> Idle]
    /\ last = Response

Exists(d) == d \in DOMAIN documents
Indexed(d) == d \in DOMAIN vector_stores

---------------------------------------------------------------------------
\* LangChainService._generate_summary: every failure is caught.
generate_summary(llm_ok) == IF llm_ok THEN LlmText ELSE SummaryFailed

\* (process_document with the store registered before the embedding succeeds)
process_document_early_store(ext, document_id, loads, text, embeds, llm_ok) ==
    LET unchanged == [vector_stores |-> vector_stores,
                      document_texts |-> document_texts]
        stored == [vector_stores |-> (document_id :> text) @@ vector_stores,
                   document_texts |-> (document_id :> text) @@ document_texts]
    IN  IF ext \notin {"pdf", "txt"}
        THEN unchanged @@ [success |-> FALSE, summary |-> "Unsupported file type"]
        ELSE IF ~loads
        THEN unchanged @@ [success |-> FALSE, summary |-> "Processing failed"]
        ELSE IF text = <<>>
        THEN unchanged @@ [success |-> FALSE,
                           summary |-> "No text content found in document"]
        ELSE IF ~embeds
        THEN stored @@ [success |-> FALSE, summary |-> "Processing failed"]
        ELSE stored @@ [success |-> TRUE, summary |-> generate_summary(llm_ok)]

\* LangChainService.process_document.  ext is the extension the stored path
\* ends with; loads, embeds and llm_ok say whether the loader, the embedding
\* provider and the LLM answer; text is the list of chunks of the file.
process_document(ext, document_id, loads, text, embeds, llm_ok) ==
    LET unchanged == [vector_stores |-> vector_stores,
                      document_texts |-> document_texts]
        with_text == (document_id :> text) @@ document_texts
    IN  IF ext \notin {"pdf", "txt"}
        THEN unchanged @@ [success |-> FALSE, summary |-> "Unsupported file type"]
        ELSE IF ~loads
        THEN unchanged @@ [success |-> FALSE, summary |-> "Processing failed"]
        ELSE IF text = <<>>
        THEN unchanged @@ [success |-> FALSE,
                           summary |-> "No text content found in document"]
        ELSE IF ~embeds
        THEN [success |-> FALSE, summary |-> "Processing failed",
              vector_stores |-> vector_stores, document_texts |-> with_text]
        ELSE [success |-> TRUE, summary |-> generate_summary(llm_ok),
              vector_stores |-> (document_id :> text) @@ vector_stores,
              document_texts |-> with_text]

\* POST /upload
upload_file(file, loads, text, embeds, llm_ok) ==
    LET filename == secure_filename(file)
        id == next_document_id
        done == process_document(filename.ext, id, loads, text, embeds, llm_ok)
        reply == [Response EXCEPT !.op = "upload"]
    IN  IF file = NoFile \/ file = EmptyName \/ ~allowed_file(file)
        THEN /\ last' = [reply EXCEPT !.status = 400]
             /\ UNCHANGED <<db, service, files, session, next_uuid, fk_enforced, pending>>
        ELSE IF filename.ext = NoExt
        THEN \* the file is saved, then rsplit('.', 1)[1] raises
             /\ files' = files \cup {OrphanPath}
             /\ last' = [reply EXCEPT !.status = 500]
             /\ UNCHANGED <<db, service, session, next_uuid, fk_enforced, pending>>
        ELSE /\ files' = files \cup {id}
             /\ next_document_id' = id + 1
             /\ documents' = (id :> [file_path |-> id,
                                     file_type |-> lower(filename.ext),
                                     processed |-> done.success,
                                     summary |-> IF done.success THEN done.summary
                                                 ELSE NoSummary])
                             @@ documents
             /\ vector_stores' = done.vector_stores
             /\ document_texts' = done.document_texts
             /\ last' = [reply EXCEPT !.status = 200, !.success = done.success,
                                      !.answer = done.summary]
             /\ UNCHANGED <<conversations, next_conversation_id, session,
                            next_uuid, fk_enforced, pending>>

---------------------------------------------------------------------------
\* The chunks of a store as search hits for the query, in chunk order.
Hits(d) ==
    [i \in 1..Len(vector_stores[d]) |->
        [document_id |-> d, chunk |-> i, similarity_score |-> vector_stores[d][i]]]

\* list.sort(key=similarity_score): a stable sort, lowest score first.
RECURSIVE sort(_)
Insert(x, s) ==
    LET after == {i \in 1..Len(s) : s[i].similarity_score <= x.similarity_score}
        n == IF after = {} THEN 0 ELSE Max(after)
    IN  SubSeq(s, 1, n) \o <<x>> \o SubSeq(s, n + 1, Len(s))
sort(s) == IF s = <<>> THEN <<>> ELSE Insert(s[Len(s)], sort(SubSeq(s, 1, Len(s) - 1)))

\* FAISS similarity_search / similarity_search_with_score: the k nearest
\* chunks of one store, nearest first.
similarity_search(d, k) == Take(sort(Hits(d)), k)

\* for doc_id, vector_store in self.vector_stores.items(): the dict keeps
\* insertion order, which is the order of the ids.
RECURSIVE Gather(_, _)
Gather(ids, k) ==
    IF ids = {} THEN <<>>
    ELSE LET d == Min(ids) IN similarity_search(d, k) \o Gather(ids \ {d}, k)

DocsOf(hits) == [i \in 1..Len(hits) |-> hits[i].document_id]

\* Conversation.query.filter_by(session_id).order_by(timestamp.desc()).limit(10)
OfSession(sid) == LET P(r) == r.session_id = sid IN SelectSeq(conversations, P)

\* The route's conversation_history: the HISTORY_LIMIT latest rows of the
\* session, the newest first.
conversation_history(sid) == Take(Reverse(OfSession(sid)), HISTORY_LIMIT)

\* The turns handed to the LLM, named by their questions.
Turns(history) == [i \in 1..Len(history) |-> history[i].question]

\* history[-n:]
LastOf(history, n) ==
    SubSeq(history, IF Len(history) > n THEN Len(history) - n + 1 ELSE 1,
           Len(history))

\* LangChainService._ask_general_conversation
ask_general_conversation(provider_ok, history) ==
    [answer |-> LlmText, context |-> NoContext, mode |-> "conversation",
     sources |-> {},
     chat_history |-> Turns(Reverse(LastOf(history, CONVERSATION_TURNS)))]

\* (_ask_document_question that never reads the source documents)
ask_document_question_no_sources(document_id, history) ==
    [answer |-> LlmText, context |-> NoContext, mode |-> "document",
     sources |-> {document_id},
     chat_history |-> Turns(Reverse(Take(history, DOCUMENT_TURNS)))]

\* LangChainService._ask_document_question
ask_document_question(document_id, history) ==
    LET source_documents == similarity_search(document_id, RETRIEVER_K)
    IN  [answer |-> LlmText,
         context |-> [chunks |-> DocsOf(source_documents), note |-> 0],
         mode |-> "document", sources |-> {document_id},
         chat_history |-> Turns(Reverse(Take(history, DOCUMENT_TURNS)))]

\* LangChainService._ask_general_question
ask_general_question(provider_ok, history) ==
    LET all_docs == Gather(DOMAIN vector_stores, GENERAL_K)
    IN  IF DOMAIN vector_stores = {} \/ all_docs = <<>>
        THEN ask_general_conversation(provider_ok, history)
        ELSE [answer |-> LlmText,
              context |-> [chunks |-> DocsOf(Take(all_docs, GENERAL_CONTEXT_DOCS)),
                           note |-> 0],
              mode |-> "general", sources |-> DOMAIN vector_stores,
              chat_history |-> Turns(Reverse(Take(history, GENERAL_TURNS)))]

\* (ask_question that falls back to plain conversation whenever the named
\* document has no index)
service_ask_question_scope_decides(document_id, provider_ok, history) ==
    LET r == IF document_id # NoDoc /\ Indexed(document_id)
             THEN ask_document_question(document_id, history)
             ELSE IF document_id = NoDoc /\ DOMAIN vector_stores # {}
             THEN ask_general_question(provider_ok, history)
             ELSE ask_general_conversation(provider_ok, history)
    IN  IF provider_ok THEN r
        ELSE [r EXCEPT !.answer = ErrorText, !.context = NoContext]

\* (ask_question whose except clause keeps the context gathered so far)
service_ask_question_keeps_context(document_id, provider_ok, history) ==
    LET r == IF document_id # NoDoc /\ Indexed(document_id)
             THEN ask_document_question(document_id, history)
             ELSE IF DOMAIN vector_stores # {}
             THEN ask_general_question(provider_ok, history)
             ELSE ask_general_conversation(provider_ok, history)
    IN  IF provider_ok THEN r ELSE [r EXCEPT !.answer = ErrorText]

\* LangChainService.ask_question: the mode by scope and indices; a failure of
\* the provider inside any mode is caught and becomes an error string with an
\* empty context.
service_ask_question(document_id, provider_ok, history) ==
    LET r == IF document_id # NoDoc /\ Indexed(document_id)
             THEN ask_document_question(document_id, history)
             ELSE IF DOMAIN vector_stores # {}
             THEN ask_general_question(provider_ok, history)
             ELSE ask_general_conversation(provider_ok, history)
    IN  IF provider_ok THEN r
        ELSE [r EXCEPT !.answer = ErrorText, !.context = NoContext]

\* session.get('session_id'), or a fresh uuid4 stored in the session.
SessionOf(c) == IF session[c] = NoSession THEN next_uuid ELSE session[c]
EnsureSession(c) ==
    /\ session' = [session EXCEPT ![c] = SessionOf(c)]
    /\ next_uuid' = IF session[c] = NoSession THEN next_uuid + 1 ELSE next_uuid

\* db.session.add(conversation); db.session.commit()
Rejected(document_id) ==
    fk_enforced /\ document_id # NoDoc /\ ~Exists(document_id)
NewConversation(sid, document_id, question, answer, context) ==
    [session_id |-> sid, document_id |-> document_id, question |-> question,
     answer |-> answer, context_used |-> context]

\* POST /ask
ask_question(c, question, document_id, provider_ok) ==
    LET reply == [Response EXCEPT !.op = "ask"]
        r == service_ask_question(document_id, provider_ok,
                                  conversation_history(SessionOf(c)))
        asked == [reply EXCEPT !.answer = r.answer, !.context = r.context,
                               !.mode = r.mode, !.sources = r.sources,
                               !.llm_called = TRUE,
                               !.chat_history = r.chat_history]
    IN  IF question = ""
        THEN /\ last' = [reply EXCEPT !.status = 400]
             /\ UNCHANGED <<db, service, files, session, next_uuid, fk_enforced, pending>>
        ELSE /\ EnsureSession(c)
             /\ IF Rejected(document_id)
                THEN /\ last' = [asked EXCEPT !.status = 500]
                     /\ UNCHANGED <<conversations, next_conversation_id>>
                ELSE /\ conversations' =
                          Append(conversations,
                                 NewConversation(SessionOf(c), document_id,
                                                 question, r.answer, r.context))
                     /\ next_conversation_id' = next_conversation_id + 1
                     /\ last' = [asked EXCEPT !.status = 200, !.success = TRUE,
                                              !.recorded = TRUE]
             /\ UNCHANGED <<documents, next_document_id, service, files,
                            fk_enforced, pending>>

\* POST /ask up to the call of the service: the handler has read (or made)
\* its session id and read the history.  A new session id reaches the
\* client's cookie with the response.
ask_begin(c, question, document_id) ==
    /\ question # ""
    /\ pending[c] = Idle
    /\ pending' = [pending EXCEPT ![c] =
                    [op |-> "ask", session_id |-> SessionOf(c),
                     new_session |-> (session[c] = NoSession),
                     document_id |-> document_id, question |-> question,
                     conversation_history |-> conversation_history(SessionOf(c))]]
    /\ next_uuid' = IF session[c] = NoSession THEN next_uuid + 1 ELSE next_uuid
    /\ UNCHANGED <<db, service, files, session, fk_enforced, last>>

\* POST /ask from the call of the service on: the answer, the Conversation
\* row with the session id read at the start, the response.
ask_finish(c, provider_ok) ==
    LET p == pending[c]
        r == service_ask_question(p.document_id, provider_ok,
                                  p.conversation_history)
        asked == [Response EXCEPT !.op = "ask", !.answer = r.answer,
                                  !.context = r.context, !.mode = r.mode,
                                  !.sources = r.sources, !.llm_called = TRUE,
                                  !.chat_history = r.chat_history]
    IN  /\ p.op = "ask"
        /\ pending' = [pending EXCEPT ![c] = Idle]
        /\ session' = IF p.new_session
                      THEN [session EXCEPT ![c] = p.session_id] ELSE session
        /\ IF Rejected(p.document_id)
           THEN /\ last' = [asked EXCEPT !.status = 500]
                /\ UNCHANGED <<conversations, next_conversation_id>>
           ELSE /\ conversations' =
                     Append(conversations,
                            NewConversation(p.session_id, p.document_id,
                                            p.question, r.answer, r.context))
                /\ next_conversation_id' = next_conversation_id + 1
                /\ last' = [asked EXCEPT !.status = 200, !.success = TRUE,
                                         !.recorded = TRUE]
        /\ UNCHANGED <<documents, next_document_id, service, files, next_uuid,
                       fk_enforced>>

\* POST /upload up to the call of process_document: the file is saved, the
\* Document row committed and its id read.
upload_begin(c, file) ==
    LET filename == secure_filename(file)
        id == next_document_id
    IN  /\ file # NoFile /\ allowed_file(file) /\ filename.ext # NoExt
        /\ pending[c] = Idle
        /\ pending' = [pending EXCEPT ![c] =
                        [op |-> "upload", document_id |-> id,
                         ext |-> filename.ext]]
        /\ files' = files \cup {id}
        /\ next_document_id' = id + 1
        /\ documents' = (id :> [file_path |-> id,
                                file_type |-> lower(filename.ext),
                                processed |-> FALSE, summary |-> NoSummary])
                        @@ documents
        /\ UNCHANGED <<conversations, next_conversation_id, service, session,
                       next_uuid, fk_enforced, last>>

\* POST /upload from process_document on.  The UPDATE of a row that was
\* deleted meanwhile matches nothing and raises; the error is logged, and
\* the response is built from the stale object or fails (stale_status).
upload_finish(c, loads, text, embeds, llm_ok, stale_status) ==
    LET p == pending[c]
        id == p.document_id
        done == process_document(p.ext, id, loads, text, embeds, llm_ok)
        reply == [Response EXCEPT !.op = "upload", !.success = done.success,
                                  !.answer = done.summary]
    IN  /\ p.op = "upload"
        /\ pending' = [pending EXCEPT ![c] = Idle]
        /\ vector_stores' = done.vector_stores
        /\ document_texts' = done.document_texts
        /\ IF done.success /\ Exists(id)
           THEN /\ documents' = [documents EXCEPT
                                    ![id].processed = TRUE,
                                    ![id].summary = done.summary]
                /\ last' = [reply EXCEPT !.status = 200]
           ELSE /\ UNCHANGED documents
                /\ last' = [reply EXCEPT !.status =
                                IF done.success THEN stale_status ELSE 200]
        /\ UNCHANGED <<next_document_id, conversations, next_conversation_id,
                       files, session, next_uuid, fk_enforced>>

\* GET /conversations
ConversationsOf(c) ==
    IF session[c] = NoSession THEN <<>> ELSE OfSession(session[c])
get_conversations(c) ==
    /\ last' = [Response EXCEPT
                   !.op = "conversations", !.status = 200,
                   !.success = TRUE, !.results = ConversationsOf(c)]
    /\ UNCHANGED <<db, service, files, session, next_uuid, fk_enforced, pending>>

\* (a delete that forgets its filter)
without_session_all(sid) == <<>>

\* Conversation.query.filter_by(session_id=session_id).delete()
without_session(sid) == LET Kept(r) == r.session_id # sid IN SelectSeq(conversations, Kept)

\* POST /clear_session
clear_session(c) ==
        /\ IF session[c] # NoSession
           THEN /\ conversations' = without_session(session[c])
                /\ session' = [session EXCEPT ![c] = next_uuid]
                /\ next_uuid' = next_uuid + 1
           ELSE UNCHANGED <<conversations, session, next_uuid>>
        /\ last' = [Response EXCEPT !.op = "clear", !.status = 200,
                                    !.success = TRUE]
        /\ UNCHANGED <<documents, next_document_id, next_conversation_id,
                       service, files, fk_enforced, pending>>

\* (a delete of the document that leaves its conversations)
without_document_none(document_id) == conversations

\* Conversation.query.filter_by(document_id=document_id).delete()
without_document(document_id) ==
    LET Kept(r) == r.document_id # document_id IN SelectSeq(conversations, Kept)

\* DELETE /delete_document/<id>: get_or_404 raises inside the try block, so a
\* missing document is answered by the handler's own except clause.
delete_document(document_id) ==
    LET reply == [Response EXCEPT !.op = "delete"]
    IN  IF ~Exists(document_id)
        THEN /\ last' = [reply EXCEPT !.status = 500]
             /\ UNCHANGED <<db, service, files, session, next_uuid, fk_enforced, pending>>
        ELSE /\ files' = files \ {documents[document_id].file_path}
             /\ conversations' = without_document(document_id)
             /\ documents' = [d \in DOMAIN documents \ {document_id} |-> documents[d]]
             /\ last' = [reply EXCEPT !.status = 200, !.success = TRUE]
             /\ UNCHANGED <<next_document_id, next_conversation_id, service,
                            session, next_uuid, fk_enforced, pending>>

\* LangChainService.compare_documents over the rows the route found: only
\* the documents with a stored text enter the prompt.  One LLM call; its
\* failure is caught and becomes the result.
RECURSIVE InOrder(_)
InOrder(ids) ==
    IF ids = {} THEN <<>> ELSE <<Min(ids)>> \o InOrder(ids \ {Min(ids)})
service_compare_documents(found, llm_ok) ==
    [prompt |-> InOrder({d \in found : d \in DOMAIN document_texts}),
     result |-> IF llm_ok THEN LlmText ELSE ErrorText]

\* question=f"Compare documents: ..."
CompareQuestion == "compare"

\* POST /compare_documents
compare_documents(c, document_ids, llm_ok) ==
    LET reply == [Response EXCEPT !.op = "compare"]
        found == {d \in Range(document_ids) : Exists(d)}
        r == service_compare_documents(found, llm_ok)
    IN  IF Len(document_ids) < MIN_COMPARE
        THEN /\ last' = [reply EXCEPT !.status = 400]
             /\ UNCHANGED <<db, service, files, session, next_uuid, fk_enforced, pending>>
        ELSE IF Cardinality(found) # Len(document_ids)
        THEN /\ last' = [reply EXCEPT !.status = 404]
             /\ UNCHANGED <<db, service, files, session, next_uuid, fk_enforced, pending>>
        ELSE /\ EnsureSession(c)
             /\ conversations' =
                  Append(conversations,
                         NewConversation(SessionOf(c), NoDoc, CompareQuestion,
                                         r.result,
                                         [chunks |-> <<>>,
                                          note |-> Cardinality(found)]))
             /\ next_conversation_id' = next_conversation_id + 1
             /\ last' = [reply EXCEPT !.status = 200, !.success = TRUE,
                                      !.answer = r.result, !.prompt = r.prompt,
                                      !.llm_called = TRUE, !.recorded = TRUE]
             /\ UNCHANGED <<documents, next_document_id, service, files,
                            fk_enforced, pending>>

\* (search_documents that cuts the list before sorting it)
service_search_documents_cut_first(embeds) ==
    LET live == {d \in DOMAIN vector_stores : Exists(d)}
        results == Gather(live, SEARCH_K)
    IN  IF embeds THEN sort(Take(results, SEARCH_TOP)) ELSE <<>>

\* LangChainService.search_documents: the stores of documents that still
\* have a row, SEARCH_K hits each; a failure of the provider is caught.
service_search_documents(embeds) ==
    LET live == {d \in DOMAIN vector_stores : Exists(d)}
        results == Gather(live, SEARCH_K)
    IN  IF embeds THEN Take(sort(results), SEARCH_TOP) ELSE <<>>

\* POST /search_documents
search_documents(c, query, embeds) ==
    LET reply == [Response EXCEPT !.op = "search"]
    IN  IF query = ""
        THEN /\ last' = [reply EXCEPT !.status = 400]
             /\ UNCHANGED <<db, service, files, session, next_uuid, fk_enforced, pending>>
        ELSE /\ EnsureSession(c)
             /\ last' = [reply EXCEPT !.status = 200, !.success = TRUE,
                                      !.results = service_search_documents(embeds)]
             /\ UNCHANGED <<db, service, files, fk_enforced, pending>>

\* A restart of the process: LangChainService() is constructed anew, the
\* database, the upload folder and the clients' cookies stay.
restart ==
    /\ vector_stores' = <<>>
    /\ document_texts' = <<>>
    /\ last' = [Response EXCEPT !.op = "restart"]
    /\ UNCHANGED <<db, files, session, next_uuid, fk_enforced, pending>>

---------------------------------------------------------------------------
\* The requests of the clients, with their inputs and the model's bounds.

\* The upload creates a Document row.
Stored(file) ==
    file # NoFile /\ allowed_file(file) /\ secure_filename(file).ext # NoExt

Ask ==
    \E c \in Clients, question \in {"", "q"}, document_id \in {NoDoc} \cup DocIds,
       provider_ok \in BOOLEAN :
        /\ next_conversation_id <= MaxConvs
        /\ session[c] = NoSession => next_uuid <= MaxSessions
        /\ ask_question(c, question, document_id, provider_ok)

GetConversations == \E c \in Clients : get_conversations(c)

ClearSession ==
    \E c \in Clients :
        /\ session[c] # NoSession => next_uuid <= MaxSessions
        /\ clear_session(c)

DeleteDocument == \E document_id \in DocIds : delete_document(document_id)

IdLists == UNION {[1..n -> DocIds] : n \in 0..MaxIds}

CompareDocuments ==
    \E c \in Clients, document_ids \in IdLists, llm_ok \in BOOLEAN :
        /\ next_conversation_id <= MaxConvs
        /\ session[c] = NoSession => next_uuid <= MaxSessions
        /\ compare_documents(c, document_ids, llm_ok)

Restart == DOMAIN document_texts # {} /\ restart

\* Uploads of plain-text files that load and embed, and of rejected names.
UploadText ==
    \E file \in {[stem |-> "ascii", ext |-> "txt"], [stem |-> "ascii", ext |-> "doc"]},
       text \in Texts :
        /\ Stored(file) => next_document_id <= MaxDocs
        /\ upload_file(file, TRUE, text, TRUE, TRUE)

\* The conversation side: questions, comparisons, sessions and deletions
\* over documents with and without an index.
Next ==
    \/ UploadText
    \/ Ask
    \/ GetConversations
    \/ ClearSession
    \/ DeleteDocument
    \/ CompareDocuments

Spec == Init /\ [][Next]_vars

\* The ingestion side: every kind of upload; comparisons by one client.
Upload ==
    \E file \in FileNames \cup {NoFile} :
        IF Stored(file)
        THEN \E loads \in BOOLEAN, text \in Texts, embeds \in BOOLEAN,
                llm_ok \in BOOLEAN :
                /\ next_document_id <= MaxDocs
                /\ upload_file(file, loads, text, embeds, llm_ok)
        ELSE upload_file(file, TRUE, <<>>, TRUE, TRUE)

CompareByOne ==
    \E document_ids \in IdLists, llm_ok \in BOOLEAN :
        /\ next_conversation_id <= MaxConvs
        /\ compare_documents(1, document_ids, llm_ok)

NextIngest ==
    \/ Upload
    \/ DeleteDocument
    \/ CompareByOne
    \/ Restart

SpecIngest == Init /\ [][NextIngest]_vars

\* The search side: up to SearchDocs indexed documents, whose chunks lie at
\* different distances from the query, some of them deleted again.
SearchTexts ==
    {<<MaxDist>>} \cup
    {[i \in 1..(SEARCH_K + 1) |-> (i + o) % (MaxDist + 1)] : o \in 0..MaxDist}

UploadIndexed ==
    \E text \in SearchTexts :
        /\ next_document_id <= SearchDocs
        /\ upload_file([stem |-> "ascii", ext |-> "txt"], TRUE, text, TRUE, TRUE)

DeleteAny == \E document_id \in 1..SearchDocs : delete_document(document_id)

SearchDocuments ==
    \E query \in {"", "q"}, embeds \in BOOLEAN :
        search_documents(1, query, embeds)

NextSearch ==
    \/ UploadIndexed
    \/ DeleteAny
    \/ SearchDocuments

SpecSearch == Init /\ [][NextSearch]_vars

\* The failure side: one client's requests while the embedding provider and
\* the LLM answer or raise.
UploadFlaky ==
    \E text \in Texts, embeds \in BOOLEAN, llm_ok \in BOOLEAN :
        /\ next_document_id <= MaxDocs
        /\ upload_file([stem |-> "ascii", ext |-> "txt"], TRUE, text, embeds, llm_ok)

AskByOne ==
    \E document_id \in {NoDoc} \cup DocIds, provider_ok \in BOOLEAN :
        /\ next_conversation_id <= MaxConvs
        /\ ask_question(1, "q", document_id, provider_ok)

NextDegrade ==
    \/ UploadFlaky
    \/ AskByOne
    \/ CompareByOne
    \/ SearchDocuments
    \/ DeleteDocument

SpecDegrade == Init /\ [][NextDegrade]_vars

\* The history side: a long conversation of client 1, every question a
\* different text, with a turn of another client's session among its turns,
\* before and after a document is indexed.
Questions == [i \in 1..HistoryConvs |-> <<"q", i>>]

UploadOne ==
    /\ next_document_id <= HistoryDocs
    /\ upload_file([stem |-> "ascii", ext |-> "txt"], TRUE, <<0>>, TRUE, TRUE)

AskHistory ==
    \E c \in Clients, document_id \in {NoDoc} \cup (1..HistoryDocs) :
        /\ next_conversation_id <= HistoryConvs
        /\ c # 1 => Len(ConversationsOf(c)) < OtherTurns
        /\ document_id # NoDoc => Indexed(document_id)
        /\ ask_question(c, Questions[next_conversation_id], document_id, TRUE)

NextHistory ==
    \/ UploadOne
    \/ AskHistory

SpecHistory == Init /\ [][NextHistory]_vars

\* The interleaved side: the /ask requests of client 1 and the /upload
\* requests of the last client run in two steps each, and whole
\* clear_session and delete_document requests run between the two.
AskBegin ==
    \E document_id \in {NoDoc} \cup (1..InterleaveDocs) :
        /\ next_conversation_id <= MaxConvs
        /\ session[1] = NoSession => next_uuid <= MaxSessions
        /\ ask_begin(1, "q", document_id)

AskFinish == ask_finish(1, TRUE)

UploadBegin ==
    /\ next_document_id <= InterleaveDocs
    /\ upload_begin(NClients, [stem |-> "ascii", ext |-> "txt"])

UploadFinish ==
    \E text \in Texts, embeds \in BOOLEAN, stale_status \in {200, 500} :
        upload_finish(NClients, TRUE, text, embeds, TRUE, stale_status)

ClearByOne ==
    /\ session[1] # NoSession => next_uuid <= MaxSessions
    /\ clear_session(1)

NextInterleave ==
    \/ AskBegin
    \/ AskFinish
    \/ UploadBegin
    \/ UploadFinish
    \/ ClearByOne
    \/ DeleteDocument

SpecInterleave == Init /\ [][NextInterleave]_vars
---------------------------------------------------------------------------
\* C1: every Conversation row whose document_id is not null references a
\* Document row that currently exists.
C1_ConversationReferencesDocument ==
    \A i \in 1..Len(conversations) :
        conversations[i].document_id # NoDoc => Exists(conversations[i].document_id)

\* C2: the index map gets an entry for a document id only in an upload whose
\* process_document returned success for that id; an upload whose ingestion
\* fails leaves the map without an entry for its id; an ingestion that built
\* its index succeeds also when the summary call fails; and the index of a
\* document that still has its row belongs to a processed document.
C2_IndexOnlyOnSuccess ==
    [][/\ \A d \in DOMAIN vector_stores' \ DOMAIN vector_stores :
            last'.op = "upload" /\ last'.success /\ d = next_document_id
       /\ (last'.op = "upload" /\ last'.status = 200 /\ ~last'.success)
            => /\ next_document_id \notin DOMAIN vector_stores'
               /\ vector_stores' = vector_stores
       /\ last'.op = "upload" => \A file \in FileNames, text \in Texts :
            (/\ Stored(file) /\ secure_filename(file).ext \in {"pdf", "txt"}
             /\ text # <<>>
             /\ upload_file(file, TRUE, text, TRUE, FALSE))
            => /\ last'.success
               /\ last'.answer = SummaryFailed
               /\ next_document_id \in DOMAIN vector_stores'
       /\ \A d \in DOMAIN vector_stores' :
            d \in DOMAIN documents' => documents'[d].processed
      ]_vars

\* A failed ingestion has just left its text without an index.
C2_Witness ==
    /\ last.op = "upload" /\ last.status = 200 /\ ~last.success
    /\ (next_document_id - 1) \in DOMAIN document_texts
    /\ (next_document_id - 1) \notin DOMAIN vector_stores
    /\ DOMAIN vector_stores # {}

\* C3: a successful delete_document removes the document's file, its row and
\* every Conversation row (of any session) that names it, and leaves the
\* other Conversation rows, in their order, and the other Document rows as
\* they were.
C3_DeleteCascades ==
    [][(last'.op = "delete" /\ last'.status = 200)
        => \E d \in DOMAIN documents :
            /\ documents[d].file_path \notin files'
            /\ files' = files \ {documents[d].file_path}
            /\ DOMAIN documents' = DOMAIN documents \ {d}
            /\ \A e \in DOMAIN documents' : documents'[e] = documents[e]
            /\ \A i \in 1..Len(conversations') : conversations'[i].document_id # d
            /\ LET Other(r) == r.document_id # d
               IN  conversations' = SelectSeq(conversations, Other)
      ]_vars

\* A delete has removed one of two recorded conversations (no session was
\* ever cleared), and a row of another scope and another document remain.
C3_Witness ==
    /\ last.op = "delete" /\ last.status = 200
    /\ next_conversation_id = 3 /\ Len(conversations) = 1
    /\ \A c \in Clients : session[c] < 2
    /\ next_uuid = 2
    /\ DOMAIN documents # {}

\* C4: clear_session by a client whose session has an identifier s deletes
\* exactly the Conversation rows of s, gives the client a new identifier
\* different from s, leaves the other clients' sessions and the rows of every
\* other session unchanged, and /conversations for the client is then empty.
C4_ClearSession ==
    [][last'.op = "clear"
        => \E c \in Clients :
            /\ \A o \in Clients \ {c} : session'[o] = session[o]
            /\ session[c] # NoSession
                => /\ session'[c] # session[c]
                   /\ session'[c] # NoSession
                   /\ \A i \in 1..Len(conversations') :
                        conversations'[i].session_id # session[c]
                   /\ LET Other(r) == r.session_id # session[c]
                      IN  conversations' = SelectSeq(conversations, Other)
                   /\ ConversationsOf(c)' = <<>>
      ]_vars

\* A clear has removed a conversation (no document was ever deleted) and the
\* conversation of another session is still there.
C4_Witness ==
    /\ last.op = "clear"
    /\ next_conversation_id = 3 /\ Len(conversations) = 1
    /\ DOMAIN documents = 1..(next_document_id - 1)
    /\ \E c \in Clients : session[c] = conversations[1].session_id

\* C5: an upload of a plainly named .txt or .pdf file that loads into at
\* least one chunk and embeds ends with a Document row that has
\* processed=true and a non-empty summary, whether or not the summary call
\* fails; and a Document row has processed=true only if its ingestion
\* succeeded.
C5_UploadProcessed ==
    [][/\ last'.op = "upload" =>
          \A file \in FileNames, text \in Texts \ {<<>>}, llm_ok \in BOOLEAN :
            (/\ file.stem = "ascii" /\ lower(file.ext) \in {"txt", "pdf"}
             /\ upload_file(file, TRUE, text, TRUE, llm_ok))
            => /\ next_document_id \in DOMAIN documents'
               /\ documents'[next_document_id].processed
               /\ documents'[next_document_id].summary \notin {NoSummary, ""}
       /\ (last'.op = "upload" /\ last'.status = 200 /\ ~last'.success)
            => ~documents'[next_document_id].processed
      ]_vars

\* C6: an upload whose extension is neither txt nor pdf is answered with an
\* error and changes nothing, so no Document row comes of it; and the
\* ingestion pipeline given a path that ends in neither .pdf nor .txt fails
\* with "Unsupported file type", adds nothing to the index map or the stored
\* texts and leaves the row with processed=false.
C6_UnsupportedExtension ==
    [][last'.op = "upload" =>
          \A file \in FileNames, loads \in BOOLEAN, text \in Texts,
             embeds \in BOOLEAN, llm_ok \in BOOLEAN :
            /\ (/\ lower(file.ext) \notin {"txt", "pdf"}
                /\ upload_file(file, loads, text, embeds, llm_ok))
               => /\ last'.status = 400
                  /\ UNCHANGED <<documents, vector_stores, document_texts, files>>
            /\ (/\ Stored(file)
                /\ secure_filename(file).ext \notin {"txt", "pdf"}
                /\ upload_file(file, loads, text, embeds, llm_ok))
               => /\ ~last'.success
                  /\ last'.answer = "Unsupported file type"
                  /\ UNCHANGED <<vector_stores, document_texts>>
                  /\ ~documents'[next_document_id].processed
      ]_vars

\* An upload has just been refused, after one that reached the pipeline with
\* a path it does not support.
C6_Witness ==
    /\ last.op = "upload" /\ last.status = 400
    /\ \E d \in DOMAIN documents :
        documents[d].file_type = "pdf" /\ ~documents[d].processed
    /\ \A d \in DOMAIN documents : ~documents[d].processed

\* C7 as claimed: a question with the id of an existing document that has an
\* index is answered from that document's index only and returns, and
\* records in its Conversation, a non-empty context; a question asked when
\* no document has an index returns an answer with an empty context and
\* records a Conversation with an empty context_used.
C7_AskContext ==
    [][last'.op = "ask" =>
       \A c \in Clients, d \in {NoDoc} \cup DocIds, ok \in BOOLEAN :
        (/\ d = NoDoc \/ Exists(d)
         /\ ask_question(c, "q", d, ok))
        => /\ (d # NoDoc /\ Indexed(d))
                => /\ last'.sources = {d}
                   /\ ~IsEmpty(last'.context)
                   /\ Range(last'.context.chunks) = {d}
                   /\ Len(conversations') = Len(conversations) + 1
                   /\ conversations'[Len(conversations')].context_used
                        = last'.context
           /\ DOMAIN vector_stores = {}
                => /\ last'.answer # ""
                   /\ IsEmpty(last'.context)
                   /\ Len(conversations') = Len(conversations) + 1
                   /\ IsEmpty(conversations'[Len(conversations')].context_used)
      ]_vars

\* C7 as amended: the first half holds when the provider answers; when it
\* fails the answer is an error string and the returned and recorded context
\* is empty.
C7_AskContextAmended ==
    [][last'.op = "ask" =>
       \A c \in Clients, d \in {NoDoc} \cup DocIds, ok \in BOOLEAN :
        (/\ d = NoDoc \/ Exists(d)
         /\ ask_question(c, "q", d, ok))
        => /\ Len(conversations') = Len(conversations) + 1
           /\ conversations'[Len(conversations')].context_used = last'.context
           /\ conversations'[Len(conversations')].document_id = d
           /\ (d # NoDoc /\ Indexed(d))
                => /\ last'.sources = {d}
                   /\ ok => /\ ~IsEmpty(last'.context)
                            /\ Range(last'.context.chunks) = {d}
                            /\ last'.answer = LlmText
                   /\ ~ok => IsEmpty(last'.context) /\ last'.answer = ErrorText
           /\ DOMAIN vector_stores = {}
                => /\ last'.answer # ""
                   /\ last'.sources = {}
                   /\ IsEmpty(last'.context)
      ]_vars

\* A question scoped to one of two indexed documents has been answered and
\* recorded with a context.
C7_Witness ==
    /\ last.op = "ask" /\ last.status = 200 /\ last.mode = "document"
    /\ ~IsEmpty(last.context)
    /\ Cardinality(DOMAIN vector_stores) = 2
    /\ conversations # <<>>
    /\ conversations[Len(conversations)].context_used = last.context

\* C8: compare_documents with fewer than 2 ids is answered 400 and has no
\* effect: no row is written, no LLM call is made, no session identifier is
\* assigned; and with 2 or more ids, one of which names no Document, it is
\* answered 404 and writes no Conversation row.
C8_CompareRejects ==
    [][last'.op = "compare" =>
       \A c \in Clients, ids \in IdLists, ok \in BOOLEAN :
        /\ (/\ Len(ids) < 2
            /\ compare_documents(c, ids, ok))
            => /\ last'.status = 400
               /\ ~last'.llm_called /\ ~last'.recorded
               /\ UNCHANGED <<documents, conversations, next_conversation_id,
                              session, next_uuid, vector_stores, document_texts,
                              files>>
        /\ (/\ Len(ids) >= 2
            /\ \E i \in 1..Len(ids) : ~Exists(ids[i])
            /\ compare_documents(c, ids, ok))
            => /\ last'.status = 404
               /\ ~last'.recorded
               /\ UNCHANGED <<conversations, next_conversation_id>>
      ]_vars

\* A comparison has been refused with 400 while documents exist and no
\* client has a session identifier.
C8_Witness ==
    /\ last.op = "compare" /\ last.status = 400
    /\ DOMAIN documents # {}
    /\ \A c \in Clients : session[c] = NoSession

\* C9: compare_documents with 2 or more different ids of existing Documents
\* succeeds, its prompt covers every named document, whatever their
\* ingestion state and also after a restart, and exactly one Conversation
\* with document_id null is recorded.
C9_CompareCoversAll ==
    [][last'.op = "compare" =>
       \A ids \in IdLists, ok \in BOOLEAN :
        (/\ Len(ids) >= 2
         /\ \A i, j \in 1..Len(ids) : ids[i] = ids[j] => i = j
         /\ \A i \in 1..Len(ids) : Exists(ids[i])
         /\ compare_documents(1, ids, ok))
        => /\ last'.status = 200
           /\ Range(last'.prompt) = Range(ids)
           /\ Len(conversations') = Len(conversations) + 1
           /\ SubSeq(conversations', 1, Len(conversations)) = conversations
           /\ conversations'[Len(conversations')].document_id = NoDoc
      ]_vars

\* C10: a search returns at most SEARCH_TOP hits, in order of non-decreasing
\* distance, at most SEARCH_K of them from one document and those the
\* nearest chunks of that document; every hit is a chunk of the index of a
\* Document row that exists; and a search the provider answers leaves out a
\* chunk of an existing document's index only if the document already gave
\* SEARCH_K hits that are no farther, or SEARCH_TOP hits that are no farther
\* were returned.
Returned(r, d) == {i \in 1..Len(r) : r[i].document_id = d}
C10_SearchResults ==
    [][(last'.op = "search" /\ last'.status = 200)
        => LET r == last'.results
           IN  /\ Len(r) <= SEARCH_TOP
               /\ \A i \in 1..(Len(r) - 1) :
                    r[i].similarity_score <= r[i + 1].similarity_score
               /\ \A i, j \in 1..Len(r) :
                    (r[i].document_id = r[j].document_id /\ r[i].chunk = r[j].chunk)
                    => i = j
               /\ \A i \in 1..Len(r) :
                    LET d == r[i].document_id
                    IN  /\ Exists(d) /\ Indexed(d)
                        /\ r[i].chunk \in 1..Len(vector_stores[d])
                        /\ r[i].similarity_score = vector_stores[d][r[i].chunk]
                        /\ Cardinality(Returned(r, d)) <= SEARCH_K
               /\ search_documents(1, "q", TRUE)
                    => \A d \in DOMAIN vector_stores : \A j \in 1..Len(vector_stores[d]) :
                        (Exists(d) /\ \A i \in Returned(r, d) : r[i].chunk # j)
                        => \/ /\ Cardinality(Returned(r, d)) = SEARCH_K
                              /\ \A i \in Returned(r, d) :
                                    r[i].similarity_score <= vector_stores[d][j]
                           \/ /\ Len(r) = SEARCH_TOP
                              /\ \A i \in 1..Len(r) :
                                    r[i].similarity_score <= vector_stores[d][j]
      ]_vars

\* A search has returned SEARCH_TOP hits at different distances, leaving
\* hits out, while the index of a deleted document is still in the map.
C10_Witness ==
    /\ last.op = "search" /\ last.status = 200
    /\ Len(last.results) = SEARCH_TOP
    /\ last.results[1].similarity_score < last.results[SEARCH_TOP].similarity_score
    /\ \E d \in DOMAIN vector_stores : ~Exists(d)

\* C11 as claimed: a failure of the LLM or of the embedding provider never
\* crashes a request.  A question (with no document id or the id of an
\* existing document) is answered with an error string and an empty context
\* and recorded as exactly one Conversation of the session; an upload leaves
\* its Document row with processed=false and no index entry; a search
\* returns an empty list; a comparison returns an error string.
C11_ProviderFailure ==
    [][/\ last'.op = "ask" =>
            \A d \in {NoDoc} \cup DocIds :
                (/\ d = NoDoc \/ Exists(d)
                 /\ ask_question(1, "q", d, FALSE))
                => /\ last'.status = 200
                   /\ last'.answer = ErrorText
                   /\ IsEmpty(last'.context)
                   /\ conversations' =
                        Append(conversations,
                               NewConversation(session'[1], d, "q", ErrorText, NoContext))
       /\ last'.op = "upload" =>
            \A text \in Texts \ {<<>>}, embeds \in BOOLEAN, llm_ok \in BOOLEAN :
                (/\ ~(embeds /\ llm_ok)
                 /\ upload_file([stem |-> "ascii", ext |-> "txt"], TRUE, text,
                                embeds, llm_ok))
                => /\ last'.status = 200
                   /\ next_document_id \in DOMAIN documents'
                   /\ ~documents'[next_document_id].processed
                   /\ next_document_id \notin DOMAIN vector_stores'
       /\ last'.op = "search" =>
            (search_documents(1, "q", FALSE)
                => last'.status = 200 /\ last'.results = <<>>)
       /\ last'.op = "compare" =>
            \A ids \in IdLists :
                (/\ Len(ids) >= MIN_COMPARE
                 /\ Cardinality({d \in Range(ids) : Exists(d)}) = Len(ids)
                 /\ compare_documents(1, ids, FALSE))
                => /\ last'.status = 200
                   /\ last'.answer = ErrorText
                   /\ Len(conversations') = Len(conversations) + 1
      ]_vars

\* C11 as amended: as claimed for /ask, /search_documents and
\* /compare_documents; a question whose document id the store rejects is
\* answered 500 and not recorded, as it is when the provider answers.  In
\* /upload a failure of the embedding provider leaves the row with
\* processed=false and no index entry, and a failure of the LLM (the summary
\* call) leaves the document indexed and processed, with the summary
\* "Summary generation failed".
C11_ProviderFailureAmended ==
    [][/\ last'.op = "ask" =>
            \A d \in {NoDoc} \cup DocIds :
                ask_question(1, "q", d, FALSE)
                => /\ last'.answer = ErrorText
                   /\ IsEmpty(last'.context)
                   /\ IF Rejected(d)
                      THEN /\ last'.status = 500
                           /\ conversations' = conversations
                      ELSE /\ last'.status = 200
                           /\ conversations' =
                                Append(conversations,
                                       NewConversation(session'[1], d, "q",
                                                       ErrorText, NoContext))
       /\ last'.op = "upload" =>
            \A text \in Texts \ {<<>>}, llm_ok \in BOOLEAN :
                /\ upload_file([stem |-> "ascii", ext |-> "txt"], TRUE, text,
                               FALSE, llm_ok)
                    => /\ last'.status = 200
                       /\ next_document_id \in DOMAIN documents'
                       /\ ~documents'[next_document_id].processed
                       /\ next_document_id \notin DOMAIN vector_stores'
                       /\ vector_stores' = vector_stores
                /\ upload_file([stem |-> "ascii", ext |-> "txt"], TRUE, text,
                               TRUE, FALSE)
                    => /\ last'.status = 200
                       /\ documents'[next_document_id].processed
                       /\ documents'[next_document_id].summary = SummaryFailed
                       /\ next_document_id \in DOMAIN vector_stores'
       /\ last'.op = "search" =>
            (search_documents(1, "q", FALSE)
                => last'.status = 200 /\ last'.results = <<>>)
       /\ last'.op = "compare" =>
            \A ids \in IdLists :
                (/\ Len(ids) >= MIN_COMPARE
                 /\ Cardinality({d \in Range(ids) : Exists(d)}) = Len(ids)
                 /\ compare_documents(1, ids, FALSE))
                => /\ last'.status = 200
                   /\ last'.answer = ErrorText
                   /\ conversations' =
                        Append(conversations,
                               NewConversation(session'[1], NoDoc,
                                               CompareQuestion, ErrorText,
                                               [chunks |-> <<>>,
                                                note |-> Len(ids)]))
      ]_vars

\* A question about an indexed document has been answered with the error
\* string and recorded, after an upload whose embedding failed.
C11_Witness ==
    /\ last.op = "ask" /\ last.status = 200 /\ last.answer = ErrorText
    /\ last.mode = "document" /\ last.recorded
    /\ conversations # <<>>
    /\ conversations[Len(conversations)].answer = ErrorText
    /\ \E d \in DOMAIN documents :
        ~documents[d].processed /\ d \in DOMAIN document_texts

C13_HistoryTurns ==
    [][(last'.op = "ask" /\ last'.recorded)
        => LET sid == conversations'[Len(conversations')].session_id
               prior == OfSession(sid)
               n == Len(prior)
               N == IF last'.mode = "general" THEN GENERAL_TURNS
                    ELSE IF last'.mode = "document" THEN DOCUMENT_TURNS
                    ELSE CONVERSATION_TURNS
               m == IF n < N THEN n ELSE N
           IN  /\ Len(last'.chat_history) = m
               /\ Range(last'.chat_history)
                    = {prior[i].question : i \in (n - m + 1)..n}
      ]_vars

\* C14: delete_document deletes the document together with its in-memory
\* vector index and stored text: the index map and the stored texts have no
\* entry for a document that was deleted, and no /ask, document-scoped or
\* cross-document, retrieves chunks of a deleted document.
C14_DeleteRemovesIndex ==
    /\ \A d \in DOMAIN vector_stores \cup DOMAIN document_texts : Exists(d)
    /\ last.op = "ask"
        => /\ Range(last.context.chunks) \subseteq DOMAIN documents
           /\ last.mode # "conversation" => last.sources \subseteq DOMAIN documents

\* C15: when requests of one session interleave, it still holds, once every
\* request has completed, that no Conversation row carries a session
\* identifier that was cleared (every row's identifier is some client's
\* current one); and an /upload that overlaps a delete_document of its
\* document never adds an index entry, nor revives or updates a row, for a
\* Document that no longer exists.
C15_InterleavedRequests ==
    [][/\ (\A c \in Clients : pending'[c] = Idle)
            => \A i \in 1..Len(conversations') :
                \E c \in Clients : conversations'[i].session_id = session'[c]
       /\ \A d \in DOMAIN vector_stores' \ DOMAIN vector_stores :
            d \in DOMAIN documents'
       /\ DOMAIN documents' \subseteq DOMAIN documents \cup {next_document_id}
      ]_vars
====
